---- MODULE Spec2Model ----
(***************************************************************************)
(* cf4ocl abstract wrapper (src/src/lib/abstract_wrapper.c): the static    *)
(* table of wrappers and its lock, wrapper construction, reference         *)
(* counting, teardown, and the per-wrapper information cache.              *)
(*                                                                         *)
(* Threads are client threads.  Every action is one step of one library   *)
(* call on one thread; a call is split where another thread can observe    *)
(* or change shared memory between two of its statements (the lock, the    *)
(* atomic counter, the tables, the heap, a foreign call).  A call that     *)
(* returns something a property speaks about stops in "ret" with its       *)
(* locals intact before the thread is idle again.                          *)
(***************************************************************************)
EXTENDS Integers, FiniteSets, Sequences, TLC

\* ---------------------------------------------------------------- bounds
NThreads == 2        \* client threads
NHandles == 2        \* distinct non-NULL OpenCL objects
NAddrs == 2          \* heap slots a wrapper can be allocated at
NParams == 1         \* distinct param_name values
NBlobs == 2          \* heap slots a CCLWrapperInfo can be allocated at
MaxSize == 1         \* largest size a size query reports
MaxOwn == 2          \* references one thread takes before it releases some
MaxRefCalls == 2     \* ccl_wrapper_ref executions counted per wrapper
MaxCalls == 5        \* library calls in a behaviour of SpecRace

NULL == 0

Threads == 1..NThreads
Handles == 1..NHandles
Addrs == 1..NAddrs
Params == 1..NParams
BlobIds == 1..NBlobs
Sizes == 0..MaxSize
Bytes == {7, 9}

VARIABLES
    wrappers,   \* the static table: [exists, map]; exists = FALSE is wrappers == NULL
    lock,       \* G_LOCK(wrappers): NULL when free, else the thread holding it
    mem,        \* heap slots of CCLWrapper objects (contents survive a free)
    blobs,      \* heap slots of CCLWrapperInfo objects
    pc,         \* per thread: where it is inside its current library call
    loc,        \* per thread: the locals of its current call
    own,        \* per thread, per address: references the client holds and has not unref'ed
    nref,       \* history: ccl_wrapper_ref executions on the object at an address
    nunref,     \* history: decrements by ccl_wrapper_unref on the object at an address
    ntear,      \* history: teardowns begun on the object at an address
    nfree,      \* history: g_slice_free1 calls on the object at an address
    released,   \* history: rel_cl_fun has been invoked for the object at an address
    retTrue,    \* history: ccl_wrapper_unref calls on the object that returned CL_TRUE
    retFalse,   \* history: ccl_wrapper_unref calls on the object that returned CL_FALSE
    given,      \* history: per wrapper, the info objects returned to callers, as returned
    prev,       \* history: per wrapper and param, the preceding use_cache = TRUE call
    crashed,    \* the process was killed by an undefined memory access
    calls       \* library calls begun so far, counted up to MaxCalls

vars == <<wrappers, lock, mem, blobs, pc, loc, own, nref, nunref, ntear,
          nfree, released, retTrue, retFalse, given, prev, crashed, calls>>

life == <<nref, nunref, ntear, nfree, released, retTrue, retFalse>>
hist == <<nref, nunref, ntear, nfree, released, retTrue, retFalse, given, prev>>

\* ------------------------------------------------------------ data model
EmptyMap == [h \in Handles |-> NULL]
EmptyCache == [p \in Params |-> NULL]

\* g_slice_alloc0(size): every field zero; info is "NULL", "table" or,
\* once g_hash_table_destroy ran on it, "destroyed" (the field is not reset)
ZeroWrapper == [alloc |-> FALSE, cl_object |-> NULL, ref_count |-> 0,
                info |-> "NULL", cache |-> EmptyCache]

NoBlob == [alloc |-> FALSE, size |-> 0, value |-> <<>>]
NoSnap == [size |-> 0 - 1, value |-> <<>>]
NoPrev == [valid |-> FALSE, ret |-> NULL, snap |-> NoSnap, probe |-> "none",
           fetch |-> "none", added |-> FALSE]
NoGiven == [b \in BlobIds |-> NoSnap]
NoPrevs == [p \in Params |-> NoPrev]

NoLocals == [op |-> "none", w |-> NULL, h |-> NULL, rel_cl |-> FALSE,
             rel_fields |-> FALSE, rel_ok |-> TRUE, had_info |-> FALSE,
             cache_gone |-> FALSE, trace |-> <<>>, destroyed |-> FALSE, p |-> NULL,
             use_cache |-> TRUE, info |-> NULL, size_ret |-> 0, old |-> NULL,
             probe |-> "none", fetch |-> "none", ret |-> NULL, snap |-> NoSnap]

Sum(f, S) ==
    LET RECURSIVE Acc(_)
        Acc(R) == IF R = {} THEN 0
                  ELSE LET x == CHOOSE y \in R : TRUE IN f[x] + Acc(R \ {x})
    IN Acc(S)

Owned(t) == Sum(own[t], Addrs)
Outstanding(a) == Sum([t \in Threads |-> own[t][a]], Threads)

InNew(t) == pc[t] \in {"n_lock", "n_lookup", "n_create", "n_ref", "n_unlock"}
InUnref(t) ==
    \/ pc[t] \in {"u_rel", "u_info", "u_lock", "u_remove", "u_fields", "u_free"}
    \/ pc[t] = "ret" /\ loc[t].op = "unref"
InInfo(t) ==
    \/ pc[t] \in {"g_size", "g_value"}
    \/ pc[t] = "ret" /\ loc[t].op = "get_info"

\* g_hash_table_size(wrappers)
TableSize(m) == Cardinality({h \in Handles : m[h] # NULL})

\* ccl_wrapper_memcheck(), lines 439-441
ccl_wrapper_memcheck == ~wrappers.exists

\* the slot g_slice_alloc0 / g_slice_new hands out
FreeAddrs == {a \in Addrs : ~mem[a].alloc}
SliceAlloc == CHOOSE a \in FreeAddrs : \A b \in FreeAddrs : a <= b
FreeBlobs == {b \in BlobIds : ~blobs[b].alloc}
BlobAlloc == CHOOSE b \in FreeBlobs : \A c \in FreeBlobs : b <= c

\* one more call, counted up to MaxCalls
Counted(n) == IF n < MaxCalls THEN n + 1 ELSE n

Snap(bl, b) == IF b = NULL THEN NoSnap ELSE [size |-> bl[b].size, value |-> bl[b].value]

Init ==
    /\ wrappers = [exists |-> FALSE, map |-> EmptyMap]
    /\ lock = NULL
    /\ mem = [a \in Addrs |-> ZeroWrapper]
    /\ blobs = [b \in BlobIds |-> NoBlob]
    /\ pc = [t \in Threads |-> "idle"]
    /\ loc = [t \in Threads |-> NoLocals]
    /\ own = [t \in Threads |-> [a \in Addrs |-> 0]]
    /\ nref = [a \in Addrs |-> 0]
    /\ nunref = [a \in Addrs |-> 0]
    /\ ntear = [a \in Addrs |-> 0]
    /\ nfree = [a \in Addrs |-> 0]
    /\ released = [a \in Addrs |-> FALSE]
    /\ retTrue = [a \in Addrs |-> 0]
    /\ retFalse = [a \in Addrs |-> 0]
    /\ given = [a \in Addrs |-> NoGiven]
    /\ prev = [a \in Addrs |-> NoPrevs]
    /\ crashed = FALSE
    /\ calls = 0

\* --------------------------------------------------------- ccl_wrapper_new
\* lines 48-57 without the test of line 51
NewCallNoNullCheck(t, h) ==
    /\ ~crashed /\ pc[t] = "idle"
    /\ calls' = Counted(calls)
    /\ Owned(t) < MaxOwn
    /\ pc' = [pc EXCEPT ![t] = "n_lock"]
    /\ loc' = [loc EXCEPT ![t] = [NoLocals EXCEPT !.op = "new", !.h = h]]
    /\ UNCHANGED <<wrappers, lock, mem, blobs, own, hist, crashed>>

\* lines 48-57: g_return_val_if_fail(cl_object != NULL, NULL) makes the call
\* return NULL for the NULL object; any other object takes the thread to
\* G_LOCK
NewCall(t, h) ==
    /\ ~crashed /\ pc[t] = "idle"
    /\ calls' = Counted(calls)
    /\ IF h = NULL
       THEN /\ pc' = [pc EXCEPT ![t] = "ret"]
            /\ loc' = [loc EXCEPT ![t] = [NoLocals EXCEPT !.op = "new"]]
       ELSE /\ Owned(t) < MaxOwn
            /\ \A a \in Addrs :
                  mem[a].alloc /\ mem[a].cl_object = h => nref[a] < MaxRefCalls
            /\ pc' = [pc EXCEPT ![t] = "n_lock"]
            /\ loc' = [loc EXCEPT ![t] = [NoLocals EXCEPT !.op = "new", !.h = h]]
    /\ UNCHANGED <<wrappers, lock, mem, blobs, own, hist, crashed>>

\* line 57 without mutual exclusion
NewLockNoWait(t) ==
    /\ ~crashed /\ pc[t] = "n_lock"
    /\ pc' = [pc EXCEPT ![t] = "n_lookup"]
    /\ UNCHANGED <<wrappers, lock, mem, blobs, loc, own, hist, crashed, calls>>

\* line 57: G_LOCK(wrappers)
NewLock(t) ==
    /\ ~crashed /\ pc[t] = "n_lock"
    /\ lock = NULL
    /\ lock' = t
    /\ pc' = [pc EXCEPT ![t] = "n_lookup"]
    /\ UNCHANGED <<wrappers, mem, blobs, loc, own, hist, crashed, calls>>

\* lines 61-68: create the table if absent, look the object up
NewLookup(t) ==
    /\ ~crashed /\ pc[t] = "n_lookup"
    /\ wrappers' = IF wrappers.exists THEN wrappers
                   ELSE [exists |-> TRUE, map |-> EmptyMap]
    /\ LET w == wrappers'.map[loc[t].h] IN
        /\ loc' = [loc EXCEPT ![t].w = w]
        /\ pc' = [pc EXCEPT ![t] = IF w = NULL THEN "n_create" ELSE "n_ref"]
    /\ UNCHANGED <<lock, mem, blobs, own, hist, crashed, calls>>

\* lines 70-74: allocate a zeroed wrapper, set cl_object, insert it
NewCreate(t) ==
    /\ ~crashed /\ pc[t] = "n_create"
    /\ FreeAddrs # {}
    /\ LET w == SliceAlloc IN
        /\ mem' = [mem EXCEPT ![w] = [ZeroWrapper EXCEPT !.alloc = TRUE,
                                                         !.cl_object = loc[t].h]]
        /\ wrappers' = [wrappers EXCEPT !.exists = TRUE, !.map[loc[t].h] = w]
        /\ loc' = [loc EXCEPT ![t].w = w]
        /\ nref' = [nref EXCEPT ![w] = 0]
        /\ nunref' = [nunref EXCEPT ![w] = 0]
        /\ ntear' = [ntear EXCEPT ![w] = 0]
        /\ nfree' = [nfree EXCEPT ![w] = 0]
        /\ released' = [released EXCEPT ![w] = FALSE]
        /\ retTrue' = [retTrue EXCEPT ![w] = 0]
        /\ retFalse' = [retFalse EXCEPT ![w] = 0]
        /\ given' = [given EXCEPT ![w] = NoGiven]
        /\ prev' = [prev EXCEPT ![w] = NoPrevs]
    /\ pc' = [pc EXCEPT ![t] = "n_ref"]
    /\ UNCHANGED <<lock, blobs, own, crashed, calls>>

\* line 78: ccl_wrapper_ref(w), i.e. line 100
NewRef(t) ==
    /\ ~crashed /\ pc[t] = "n_ref"
    /\ mem' = [mem EXCEPT ![loc[t].w].ref_count = @ + 1]
    /\ nref' = [nref EXCEPT ![loc[t].w] = @ + 1]
    /\ pc' = [pc EXCEPT ![t] = "n_unlock"]
    /\ UNCHANGED <<wrappers, lock, blobs, loc, own, nunref, ntear, nfree,
                   released, retTrue, retFalse, given, prev, crashed, calls>>

\* lines 81-84: G_UNLOCK(wrappers); return w
NewReturn(t) ==
    /\ ~crashed /\ pc[t] = "n_unlock"
    /\ lock' = NULL
    /\ own' = [own EXCEPT ![t][loc[t].w] = @ + 1]
    /\ pc' = [pc EXCEPT ![t] = "idle"]
    /\ loc' = [loc EXCEPT ![t] = NoLocals]
    /\ UNCHANGED <<wrappers, mem, blobs, hist, crashed, calls>>

\* --------------------------------------------------------- ccl_wrapper_ref
\* lines 94-102 without the increment
RefCallNoInc(t, w) ==
    /\ ~crashed /\ pc[t] = "idle"
    /\ calls' = Counted(calls)
    /\ own[t][w] > 0
    /\ Owned(t) < MaxOwn
    /\ nref[w] < MaxRefCalls
    /\ nref' = [nref EXCEPT ![w] = @ + 1]
    /\ own' = [own EXCEPT ![t][w] = @ + 1]
    /\ UNCHANGED <<wrappers, lock, mem, blobs, pc, loc, nunref, ntear, nfree,
                   released, retTrue, retFalse, given, prev, crashed>>

\* lines 94-102 with the increment made under G_LOCK(wrappers)
RefCallLocked(t, w) ==
    /\ ~crashed /\ pc[t] = "idle"
    /\ lock = NULL
    /\ calls' = Counted(calls)
    /\ own[t][w] > 0
    /\ Owned(t) < MaxOwn
    /\ nref[w] < MaxRefCalls
    /\ mem' = [mem EXCEPT ![w].ref_count = @ + 1]
    /\ nref' = [nref EXCEPT ![w] = @ + 1]
    /\ own' = [own EXCEPT ![t][w] = @ + 1]
    /\ UNCHANGED <<wrappers, lock, blobs, pc, loc, nunref, ntear, nfree,
                   released, retTrue, retFalse, given, prev, crashed>>

\* lines 94-102 on a wrapper the caller holds
RefCall(t, w) ==
    /\ ~crashed /\ pc[t] = "idle"
    /\ calls' = Counted(calls)
    /\ own[t][w] > 0
    /\ Owned(t) < MaxOwn
    /\ nref[w] < MaxRefCalls
    /\ mem' = [mem EXCEPT ![w].ref_count = @ + 1]
    /\ nref' = [nref EXCEPT ![w] = @ + 1]
    /\ own' = [own EXCEPT ![t][w] = @ + 1]
    /\ UNCHANGED <<wrappers, lock, blobs, pc, loc, nunref, ntear, nfree,
                   released, retTrue, retFalse, given, prev, crashed>>

\* ------------------------------------------------------- ccl_wrapper_unref
\* g_atomic_int_dec_and_test with the test off by one
DecAndTestOffByOne(c) == [val |-> c - 1, zero |-> (c - 1 <= 1)]

\* g_atomic_int_dec_and_test (line 139): the new value, and whether it is zero
g_atomic_int_dec_and_test(c) == [val |-> c - 1, zero |-> (c - 1 = 0)]

\* ccl_wrapper_info_destroy (lines 478-487) on every value of a table: its
\* GDestroyNotify, run by g_hash_table_destroy
DestroyValues(bl, cache) ==
    [b \in BlobIds |->
        IF \E p \in Params : cache[p] = b THEN NoBlob ELSE bl[b]]

\* lines 127-152: the decrement of line 139; when it reaches zero the call
\* enters rel_cl_fun (if given), otherwise it is about to return CL_FALSE
UnrefCall(t, w, rel_cl, rel_fields) ==
    /\ ~crashed /\ pc[t] = "idle"
    /\ calls' = Counted(calls)
    /\ own[t][w] > 0
    /\ own' = [own EXCEPT ![t][w] = @ - 1]
    /\ nunref' = [nunref EXCEPT ![w] = @ + 1]
    /\ LET r == g_atomic_int_dec_and_test(mem[w].ref_count) IN
        /\ mem' = [mem EXCEPT ![w].ref_count = r.val]
        /\ IF r.zero
           THEN /\ ntear' = [ntear EXCEPT ![w] = @ + 1]
                /\ released' = [released EXCEPT ![w] = @ \/ rel_cl]
                /\ pc' = [pc EXCEPT ![t] = IF rel_cl THEN "u_rel" ELSE "u_info"]
                /\ loc' = [loc EXCEPT ![t] =
                              [NoLocals EXCEPT !.op = "unref", !.w = w,
                                   !.rel_cl = rel_cl, !.rel_fields = rel_fields,
                                   !.destroyed = TRUE,
                                   !.had_info = (mem[w].info # "NULL"),
                                   !.trace = IF rel_cl THEN <<"rel_cl">> ELSE <<>>]]
                /\ UNCHANGED retFalse
           ELSE /\ retFalse' = [retFalse EXCEPT ![w] = @ + 1]
                /\ pc' = [pc EXCEPT ![t] = "ret"]
                /\ loc' = [loc EXCEPT ![t] =
                              [NoLocals EXCEPT !.op = "unref", !.w = w,
                                   !.rel_cl = rel_cl, !.rel_fields = rel_fields]]
                /\ UNCHANGED <<ntear, released>>
    /\ UNCHANGED <<wrappers, lock, blobs, nref, nfree, retTrue, given, prev, crashed>>

\* lines 146-151 with a failed release returning at once
UnrefReleasedAbort(t, ok) ==
    /\ ~crashed /\ pc[t] = "u_rel"
    /\ loc' = [loc EXCEPT ![t].rel_ok = ok]
    /\ pc' = [pc EXCEPT ![t] = IF ok THEN "u_info" ELSE "ret"]
    /\ UNCHANGED <<wrappers, lock, mem, blobs, own, hist, crashed, calls>>

\* lines 146-151: rel_cl_fun returns its status
UnrefReleased(t, ok) ==
    /\ ~crashed /\ pc[t] = "u_rel"
    /\ loc' = [loc EXCEPT ![t].rel_ok = ok]
    /\ pc' = [pc EXCEPT ![t] = "u_info"]
    /\ UNCHANGED <<wrappers, lock, mem, blobs, own, hist, crashed, calls>>

\* lines 155-157 left out
UnrefInfoSkipped(t) ==
    /\ ~crashed /\ pc[t] = "u_info"
    /\ pc' = [pc EXCEPT ![t] = "u_lock"]
    /\ UNCHANGED <<wrappers, lock, mem, blobs, loc, own, hist, crashed, calls>>

\* lines 155-157: destroy the info table and, through it, its values
UnrefInfo(t) ==
    /\ ~crashed /\ pc[t] = "u_info"
    /\ LET w == loc[t].w IN
        IF mem[w].info # "NULL"
        THEN /\ blobs' = DestroyValues(blobs, mem[w].cache)
             /\ mem' = [mem EXCEPT ![w].info = "destroyed", ![w].cache = EmptyCache]
             /\ loc' = [loc EXCEPT
                          ![t].trace = Append(@, "info"),
                          ![t].cache_gone =
                              \A p \in Params : mem[w].cache[p] # NULL
                                                    => ~blobs'[mem[w].cache[p]].alloc]
             /\ given' = [given EXCEPT ![w] = NoGiven]
             /\ prev' = [prev EXCEPT ![w] = NoPrevs]
        ELSE UNCHANGED <<blobs, mem, loc, given, prev>>
    /\ pc' = [pc EXCEPT ![t] = "u_lock"]
    /\ UNCHANGED <<wrappers, lock, own, life, crashed, calls>>

\* line 161: G_LOCK(wrappers)
UnrefLock(t) ==
    /\ ~crashed /\ pc[t] = "u_lock"
    /\ lock = NULL
    /\ lock' = t
    /\ pc' = [pc EXCEPT ![t] = "u_remove"]
    /\ UNCHANGED <<wrappers, mem, blobs, loc, own, hist, crashed, calls>>

\* lines 162-166 with the table never released
RemoveKeepTable(m, h) == [exists |-> TRUE, map |-> [m EXCEPT ![h] = NULL]]

\* lines 162-166: remove the key; destroy the table when it is empty
RemoveFromTable(m, h) ==
    LET m2 == [m EXCEPT ![h] = NULL] IN
    IF TableSize(m2) = 0 THEN [exists |-> FALSE, map |-> EmptyMap]
    ELSE [exists |-> TRUE, map |-> m2]

\* lines 162-171 with G_UNLOCK left until after rel_fields_fun
UnrefRemoveKeepLock(t) ==
    /\ ~crashed /\ pc[t] = "u_remove"
    /\ wrappers' = IF wrappers.exists
                   THEN RemoveFromTable(wrappers.map, mem[loc[t].w].cl_object)
                   ELSE wrappers
    /\ lock' = IF loc[t].rel_fields THEN lock ELSE NULL
    /\ loc' = [loc EXCEPT ![t].trace =
                  IF loc[t].rel_fields THEN @ \o <<"remove", "rel_fields">>
                  ELSE Append(@, "remove")]
    /\ pc' = [pc EXCEPT ![t] = IF loc[t].rel_fields THEN "u_fields" ELSE "u_free"]
    /\ UNCHANGED <<mem, blobs, own, hist, crashed, calls>>

\* lines 162-171: the critical section, G_UNLOCK, and the call of
\* rel_fields_fun (if given).  On wrappers == NULL the GLib calls return
\* at their precondition check and wrappers stays NULL.
UnrefRemove(t) ==
    /\ ~crashed /\ pc[t] = "u_remove"
    /\ wrappers' = IF wrappers.exists
                   THEN RemoveFromTable(wrappers.map, mem[loc[t].w].cl_object)
                   ELSE wrappers
    /\ lock' = NULL
    /\ loc' = [loc EXCEPT ![t].trace =
                  IF loc[t].rel_fields THEN @ \o <<"remove", "rel_fields">>
                  ELSE Append(@, "remove")]
    /\ pc' = [pc EXCEPT ![t] = IF loc[t].rel_fields THEN "u_fields" ELSE "u_free"]
    /\ UNCHANGED <<mem, blobs, own, hist, crashed, calls>>

\* line 171: rel_fields_fun returns
UnrefFields(t) ==
    /\ ~crashed /\ pc[t] = "u_fields"
    /\ pc' = [pc EXCEPT ![t] = "u_free"]
    /\ UNCHANGED <<wrappers, lock, mem, blobs, loc, own, hist, crashed, calls>>

\* lines 174-179: g_slice_free1(size, wrapper); the call is about to
\* return CL_TRUE
UnrefFree(t) ==
    /\ ~crashed /\ pc[t] = "u_free"
    /\ LET w == loc[t].w IN
        /\ mem' = [mem EXCEPT ![w].alloc = FALSE]
        /\ nfree' = [nfree EXCEPT ![w] = @ + 1]
        /\ retTrue' = [retTrue EXCEPT ![w] = @ + 1]
    /\ loc' = [loc EXCEPT ![t].trace = Append(@, "free")]
    /\ pc' = [pc EXCEPT ![t] = "ret"]
    /\ UNCHANGED <<wrappers, lock, blobs, own, nref, nunref, ntear, released,
                   retFalse, given, prev, crashed, calls>>

\* ---------------------------------------------------- ccl_wrapper_get_info
\* ccl_wrapper_info_new(size), lines 457-469
ccl_wrapper_info_new(size) ==
    [alloc |-> TRUE, size |-> size, value |-> [i \in 1..size |-> 0]]

\* ccl_wrapper_add_info, lines 240-248: create the table if absent, then
\* g_hash_table_replace, which runs ccl_wrapper_info_destroy (lines 478-487)
\* on the value it replaces
ccl_wrapper_add_info(m, bl, w, p, b) ==
    LET old == m[w].cache[p] IN
    [mem |-> [m EXCEPT ![w].info = IF @ = "NULL" THEN "table" ELSE @,
                       ![w].cache[p] = b],
     blobs |-> IF old # NULL /\ old # b
               THEN [bl EXCEPT ![old] = NoBlob] ELSE bl]

\* lines 286-292 with the table consulted whatever use_cache says
NeedQueryIgnoreFlag(w, p, use_cache) ==
    \/ mem[w].info = "NULL"
    \/ mem[w].cache[p] = NULL

\* lines 286-292 with the table never consulted
NeedQueryAlways(w, p, use_cache) == TRUE

\* lines 286-292: is the OpenCL object to be queried?
NeedQuery(w, p, use_cache) ==
    \/ ~use_cache
    \/ mem[w].info = "NULL"
    \/ mem[w].cache[p] = NULL

\* lines 276-292 and 336-353: the call either finds the info in the table
\* and is about to return it, or enters info_fun for the size
InfoCall(t, w, p, use_cache) ==
    /\ ~crashed /\ pc[t] = "idle"
    /\ calls' = Counted(calls)
    /\ own[t][w] > 0
    /\ LET start == [NoLocals EXCEPT !.op = "get_info", !.w = w, !.p = p,
                         !.use_cache = use_cache, !.old = mem[w].cache[p]]
       IN IF NeedQuery(w, p, use_cache)
          THEN /\ pc' = [pc EXCEPT ![t] = "g_size"]
               /\ loc' = [loc EXCEPT ![t] = start]
               /\ prev' = IF use_cache THEN prev ELSE [prev EXCEPT ![w][p] = NoPrev]
          ELSE /\ pc' = [pc EXCEPT ![t] = "ret"]
               /\ loc' = [loc EXCEPT ![t] =
                             [start EXCEPT !.ret = mem[w].cache[p],
                                           !.snap = Snap(blobs, mem[w].cache[p])]]
               /\ UNCHANGED prev
    /\ UNCHANGED <<wrappers, lock, mem, blobs, own, life, given, crashed>>

\* lines 300-315 without the test of lines 309-312
InfoSizeNoZeroCheck(t, ok, size) ==
    /\ ~crashed /\ pc[t] = "g_size"
    /\ IF ok
       THEN /\ FreeBlobs # {}
            /\ LET b == BlobAlloc IN
                /\ blobs' = [blobs EXCEPT ![b] = ccl_wrapper_info_new(size)]
                /\ loc' = [loc EXCEPT ![t].info = b, ![t].size_ret = size,
                                      ![t].probe = "ok"]
            /\ pc' = [pc EXCEPT ![t] = "g_value"]
       ELSE /\ loc' = [loc EXCEPT ![t].probe = "error"]
            /\ pc' = [pc EXCEPT ![t] = "ret"]
            /\ UNCHANGED blobs
    /\ UNCHANGED <<wrappers, lock, mem, own, hist, crashed, calls>>

\* lines 300-323: the size query returns (status, size_ret); on an error
\* or a zero size the call is about to return NULL, otherwise it allocates
\* the info object and enters info_fun for the value
InfoSize(t, ok, size) ==
    /\ ~crashed /\ pc[t] = "g_size"
    /\ IF ok /\ size > 0
       THEN /\ FreeBlobs # {}
            /\ LET b == BlobAlloc IN
                /\ blobs' = [blobs EXCEPT ![b] = ccl_wrapper_info_new(size)]
                /\ loc' = [loc EXCEPT ![t].info = b, ![t].size_ret = size,
                                      ![t].probe = "ok"]
            /\ pc' = [pc EXCEPT ![t] = "g_value"]
       ELSE /\ loc' = [loc EXCEPT ![t].probe = IF ok THEN "ok" ELSE "error",
                                  ![t].size_ret = IF ok THEN size ELSE 0]
            /\ pc' = [pc EXCEPT ![t] = "ret"]
            /\ UNCHANGED blobs
    /\ UNCHANGED <<wrappers, lock, mem, own, hist, crashed, calls>>

\* lines 324-353 with the info object added whatever the value query
\* returned
InfoValueAddAlways(t, ok, val) ==
    /\ ~crashed /\ pc[t] = "g_value"
    /\ LET w == loc[t].w
           p == loc[t].p
           b == loc[t].info
           filled == IF ok THEN [blobs EXCEPT ![b].value = val] ELSE blobs
           r == ccl_wrapper_add_info(mem, filled, w, p, b)
       IN /\ mem' = r.mem
          /\ blobs' = r.blobs
          /\ loc' = IF ok
                    THEN [loc EXCEPT ![t].fetch = "ok", ![t].ret = b,
                                     ![t].snap = Snap(r.blobs, b)]
                    ELSE [loc EXCEPT ![t].fetch = "error"]
    /\ pc' = [pc EXCEPT ![t] = "ret"]
    /\ UNCHANGED <<wrappers, lock, own, hist, crashed, calls>>

\* lines 324-353 with a failed value query removing the entry of the id
InfoValueEvictOnError(t, ok, val) ==
    /\ ~crashed /\ pc[t] = "g_value"
    /\ LET w == loc[t].w
           p == loc[t].p
           b == loc[t].info
           e == mem[w].cache[p]
       IN
        IF ok
        THEN LET filled == [blobs EXCEPT ![b].value = val]
                 r == ccl_wrapper_add_info(mem, filled, w, p, b)
             IN /\ mem' = r.mem
                /\ blobs' = r.blobs
                /\ loc' = [loc EXCEPT ![t].fetch = "ok", ![t].ret = b,
                                      ![t].snap = Snap(r.blobs, b)]
        ELSE /\ loc' = [loc EXCEPT ![t].fetch = "error"]
             /\ mem' = [mem EXCEPT ![w].cache[p] = NULL]
             /\ blobs' = IF e = NULL THEN blobs ELSE [blobs EXCEPT ![e] = NoBlob]
    /\ pc' = [pc EXCEPT ![t] = "ret"]
    /\ UNCHANGED <<wrappers, lock, own, hist, crashed, calls>>

\* lines 324-353: the value query returns; on an error the call is about to
\* return NULL, otherwise the filled info object is added to the table and
\* is about to be returned
InfoValue(t, ok, val) ==
    /\ ~crashed /\ pc[t] = "g_value"
    /\ LET w == loc[t].w
           p == loc[t].p
           b == loc[t].info
       IN
        IF ok
        THEN LET filled == [blobs EXCEPT ![b].value = val]
                 r == ccl_wrapper_add_info(mem, filled, w, p, b)
             IN /\ mem' = r.mem
                /\ blobs' = r.blobs
                /\ loc' = [loc EXCEPT ![t].fetch = "ok", ![t].ret = b,
                                      ![t].snap = Snap(r.blobs, b)]
        ELSE /\ loc' = [loc EXCEPT ![t].fetch = "error"]
             /\ UNCHANGED <<mem, blobs>>
    /\ pc' = [pc EXCEPT ![t] = "ret"]
    /\ UNCHANGED <<wrappers, lock, own, hist, crashed, calls>>

\* a concrete wrapper builds an info object with ccl_wrapper_info_new and
\* stores it with ccl_wrapper_add_info (lines 230-249)
AddInfoCall(t, w, p, size) ==
    /\ ~crashed /\ pc[t] = "idle"
    /\ calls' = Counted(calls)
    /\ own[t][w] > 0
    /\ FreeBlobs # {}
    /\ LET b == BlobAlloc
           r == ccl_wrapper_add_info(mem, [blobs EXCEPT ![b] = ccl_wrapper_info_new(size)],
                                     w, p, b)
       IN /\ mem' = r.mem
          /\ blobs' = r.blobs
    /\ prev' = IF prev[w][p].valid THEN [prev EXCEPT ![w][p].added = TRUE] ELSE prev
    /\ UNCHANGED <<wrappers, lock, pc, loc, own, life, given, crashed>>

\* the call returns to the client (lines 179 and 353)
Return(t) ==
    /\ ~crashed /\ pc[t] = "ret"
    /\ LET l == loc[t] IN
        /\ given' = IF l.op = "get_info" /\ l.ret # NULL
                    THEN [given EXCEPT ![l.w][l.ret] = l.snap] ELSE given
        /\ prev' = IF l.op = "get_info" /\ l.use_cache
                   THEN [prev EXCEPT ![l.w][l.p] =
                            [valid |-> TRUE, ret |-> l.ret, snap |-> l.snap,
                             probe |-> l.probe, fetch |-> l.fetch, added |-> FALSE]]
                   ELSE prev
    /\ pc' = [pc EXCEPT ![t] = "idle"]
    /\ loc' = [loc EXCEPT ![t] = NoLocals]
    /\ UNCHANGED <<wrappers, lock, mem, blobs, own, life, crashed, calls>>

\* ------------------------------------------------------ undefined behaviour
\* The next statement of t reads or writes a freed wrapper or a destroyed
\* info table, or frees a block twice.
Undefined(t) ==
    \/ /\ pc[t] = "idle"
       /\ \E w \in Addrs : own[t][w] > 0 /\ ~mem[w].alloc
    \/ /\ pc[t] \in {"n_ref", "u_info", "u_remove", "u_free"}
       /\ ~mem[loc[t].w].alloc
    \/ /\ pc[t] = "u_info"
       /\ mem[loc[t].w].info = "destroyed"

\* One outcome of an undefined access: the process dies.  The other outcome
\* is the action itself, run on whatever the memory holds.
Crash(t) ==
    /\ ~crashed
    /\ Undefined(t)
    /\ crashed' = TRUE
    /\ UNCHANGED <<wrappers, lock, mem, blobs, pc, loc, own, hist, calls>>

\* ------------------------------------------------------------ specification
Values(size) == [1..size -> Bytes]
OneHandle == {CHOOSE h \in Handles : TRUE}

NoNew == \A u \in Threads : ~InNew(u)
NoUnref == \A u \in Threads : ~InUnref(u)
CacheMine(t, w) == \A u \in Threads \ {t} : ~(InInfo(u) /\ loc[u].w = w)

\* Every operation, on client threads that keep to the threading the
\* library is written for: a constructor call and a release call do not
\* overlap, and one thread at a time works on the info table of a wrapper.
\* The threads share one OpenCL object.
Next ==
    \E t \in Threads :
        \/ NoUnref /\ \E h \in OneHandle \cup {NULL} : NewCall(t, h)
        \/ NewLock(t)
        \/ NewLookup(t)
        \/ NewCreate(t)
        \/ NewRef(t)
        \/ NewReturn(t)
        \/ \E w \in Addrs : RefCall(t, w)
        \/ NoNew /\ \E w \in Addrs, rc \in BOOLEAN, rf \in BOOLEAN : UnrefCall(t, w, rc, rf)
        \/ \E ok \in BOOLEAN : UnrefReleased(t, ok)
        \/ UnrefInfo(t)
        \/ UnrefLock(t)
        \/ UnrefRemove(t)
        \/ UnrefFields(t)
        \/ UnrefFree(t)
        \/ \E w \in Addrs, p \in Params, uc \in BOOLEAN :
               CacheMine(t, w) /\ InfoCall(t, w, p, uc)
        \/ \E size \in Sizes : InfoSize(t, TRUE, size)
        \/ InfoSize(t, FALSE, 0)
        \/ \E val \in Values(loc[t].size_ret) : InfoValue(t, TRUE, val)
        \/ InfoValue(t, FALSE, <<>>)
        \/ \E w \in Addrs, p \in Params, size \in Sizes :
               CacheMine(t, w) /\ AddInfoCall(t, w, p, size)
        \/ Return(t)

Spec == Init /\ [][Next]_vars

\* The constructor and the reference counting calls over every OpenCL
\* object, on threads that keep a constructor call and a release call
\* from overlapping.
LifeNext ==
    \E t \in Threads :
        \/ NoUnref /\ \E h \in Handles \cup {NULL} : NewCall(t, h)
        \/ NewLock(t)
        \/ NewLookup(t)
        \/ NewCreate(t)
        \/ NewRef(t)
        \/ NewReturn(t)
        \/ \E w \in Addrs : RefCall(t, w)
        \/ NoNew /\ \E w \in Addrs, rc \in BOOLEAN, rf \in BOOLEAN : UnrefCall(t, w, rc, rf)
        \/ \E ok \in BOOLEAN : UnrefReleased(t, ok)
        \/ UnrefInfo(t)
        \/ UnrefLock(t)
        \/ UnrefRemove(t)
        \/ UnrefFields(t)
        \/ UnrefFree(t)
        \/ Return(t)

SpecLife == Init /\ [][LifeNext]_vars

\* The constructor and the reference counting calls on one OpenCL object
\* under every interleaving of the client threads, for behaviours of at
\* most MaxCalls calls.
RaceNext ==
    \E t \in Threads :
        \/ calls < MaxCalls /\ \E h \in OneHandle \cup {NULL} : NewCall(t, h)
        \/ NewLock(t)
        \/ NewLookup(t)
        \/ NewCreate(t)
        \/ NewRef(t)
        \/ NewReturn(t)
        \/ calls < MaxCalls /\ \E w \in Addrs : RefCall(t, w)
        \/ calls < MaxCalls
             /\ \E w \in Addrs, rc \in BOOLEAN, rf \in BOOLEAN : UnrefCall(t, w, rc, rf)
        \/ \E ok \in BOOLEAN : UnrefReleased(t, ok)
        \/ UnrefInfo(t)
        \/ UnrefLock(t)
        \/ UnrefRemove(t)
        \/ UnrefFields(t)
        \/ UnrefFree(t)
        \/ Return(t)
        \/ Crash(t)

SpecRace == Init /\ [][RaceNext]_vars

\* The steps of the call t is in, other than the two G_LOCK statements:
\* the statements of the library and the returns of rel_cl_fun and
\* rel_fields_fun.
CallStep(t) ==
    \/ NewLookup(t)
    \/ NewCreate(t)
    \/ NewRef(t)
    \/ NewReturn(t)
    \/ \E ok \in BOOLEAN : UnrefReleased(t, ok)
    \/ UnrefInfo(t)
    \/ UnrefRemove(t)
    \/ UnrefFields(t)
    \/ UnrefFree(t)
    \/ Return(t)

\* SpecRace with a fair scheduler: a thread that can take a step of its
\* call eventually takes it, the functions given to ccl_wrapper_unref
\* return, and a thread at G_LOCK gets the lock if it is free again and
\* again.  A process killed by an undefined access takes no further step.
SpecRaceFair ==
    /\ Init /\ [][RaceNext]_vars
    /\ \A t \in Threads : WF_vars(CallStep(t))
    /\ \A t \in Threads : SF_vars(NewLock(t))
    /\ \A t \in Threads : SF_vars(UnrefLock(t))

\* Two unsynchronised accesses to one GHashTable, one of them a write, are
\* a data race: t is about to write the info table of its wrapper (line
\* 247) while another thread is inside a call that reads or writes the
\* same table.  One outcome is that the process dies; the others are the
\* interleavings of the accesses as if each were atomic.
CacheRace(t) ==
    /\ pc[t] = "g_value"
    /\ \E u \in Threads \ {t} : InInfo(u) /\ loc[u].w = loc[t].w

CacheCrash(t) ==
    /\ ~crashed
    /\ CacheRace(t)
    /\ crashed' = TRUE
    /\ UNCHANGED <<wrappers, lock, mem, blobs, pc, loc, own, hist, calls>>

\* ccl_wrapper_new and ccl_wrapper_get_info with use_cache = TRUE, the
\* threads free to call get_info on one wrapper at the same time.
CacheNext ==
    \E t \in Threads :
        \/ \E h \in OneHandle : NewCall(t, h)
        \/ NewLock(t)
        \/ NewLookup(t)
        \/ NewCreate(t)
        \/ NewRef(t)
        \/ NewReturn(t)
        \/ \E w \in Addrs, p \in Params : InfoCall(t, w, p, TRUE)
        \/ \E size \in Sizes : InfoSize(t, TRUE, size)
        \/ InfoSize(t, FALSE, 0)
        \/ \E val \in Values(loc[t].size_ret) : InfoValue(t, TRUE, val)
        \/ InfoValue(t, FALSE, <<>>)
        \/ Return(t)
        \/ CacheCrash(t)

SpecCache == Init /\ [][CacheNext]_vars

\* ================================================================ properties
Idle == \A t \in Threads : pc[t] = "idle"

\* the references to the wrapper at a that clients hold or are being handed
Holders(a) ==
    Outstanding(a) + Cardinality({t \in Threads : pc[t] = "n_unlock" /\ loc[t].w = a})

Registered(a) == wrappers.exists /\ wrappers.map[mem[a].cl_object] = a

\* ---------------------------------------------------------------------- C1
\* C1 (identity): whatever way ccl_wrapper_new calls on several threads
\* interleave, the wrappers they return for one OpenCL object are one and
\* the same object, and at no time are there two wrappers of one OpenCL
\* object: every wrapper that is not being torn down is the one the table
\* holds for its object.
C1_Identity ==
    /\ \A t1 \in Threads, t2 \in Threads, a1 \in Addrs, a2 \in Addrs :
          /\ own[t1][a1] > 0 \/ (pc[t1] = "n_unlock" /\ loc[t1].w = a1)
          /\ own[t2][a2] > 0 \/ (pc[t2] = "n_unlock" /\ loc[t2].w = a2)
          /\ mem[a1].cl_object = mem[a2].cl_object
          => a1 = a2
    /\ \A a \in Addrs : mem[a].alloc /\ ntear[a] = 0 => Registered(a)

\* two calls for one object overlap, one has its wrapper and the other waits
C1_Witness ==
    \E t1 \in Threads, t2 \in Threads :
        /\ t1 # t2
        /\ pc[t1] = "n_unlock" /\ pc[t2] = "n_lock"
        /\ loc[t1].h = loc[t2].h
        /\ \E t3 \in Threads : own[t3][loc[t1].w] > 0

\* ---------------------------------------------------------------------- C2
\* C2 (refcount conservation): a wrapper is destroyed exactly when the
\* ccl_wrapper_unref calls on it number the ccl_wrapper_ref executions after
\* the one of its construction plus 1; it is not destroyed while a reference
\* is outstanding; it is torn down and freed at most once.
C2_RefcountConservation ==
    \A a \in Addrs : nref[a] >= 1 =>
        /\ (ntear[a] >= 1) <=> (nunref[a] = (nref[a] - 1) + 1)
        /\ ntear[a] <= 1 /\ nfree[a] <= ntear[a]
        /\ Holders(a) > 0 => ntear[a] = 0 /\ mem[a].alloc
        /\ ntear[a] = 0 => mem[a].ref_count = nref[a] - nunref[a]

\* a wrapper that was referenced again after its construction is destroyed
C2_Witness ==
    \E a \in Addrs : nref[a] >= 2 /\ nunref[a] = nref[a] /\ nfree[a] = 1 /\ ~mem[a].alloc

\* ---------------------------------------------------------------------- C3
\* C3 (no double teardown): of the ccl_wrapper_unref calls that release the
\* N references of a wrapper, on whatever threads, exactly one tears the
\* wrapper down and returns CL_TRUE, and the other N-1 return CL_FALSE.
C3_NoDoubleTeardown ==
    /\ \A a \in Addrs :
        /\ ntear[a] <= 1 /\ retTrue[a] <= 1
        /\ nref[a] >= 1 /\ nunref[a] = nref[a]
                /\ (\A t \in Threads : pc[t] = "idle")
           => retTrue[a] = 1 /\ retFalse[a] = nunref[a] - 1
    /\ \A t \in Threads : pc[t] = "ret" /\ loc[t].op = "unref" =>
        (loc[t].destroyed <=> loc[t].trace # <<>>)

\* one thread has returned CL_FALSE for a wrapper while another tears it down
C3_Witness ==
    \E t1 \in Threads, t2 \in Threads :
        /\ t1 # t2
        /\ pc[t1] = "ret" /\ loc[t1].op = "unref" /\ ~loc[t1].destroyed
        /\ pc[t2] \in {"u_rel", "u_info", "u_lock", "u_remove", "u_fields", "u_free"}
        /\ loc[t2].w = loc[t1].w

\* ---------------------------------------------------------------------- C4
\* C4 (a returned reference stays live): while a client holds a reference
\* that ccl_wrapper_new returned and has not unref'ed it, the wrapper is
\* allocated, is in the table, and its OpenCL object has not been released.
C4_ReturnedReferenceLive ==
    \A t \in Threads, a \in Addrs : own[t][a] > 0 =>
        /\ mem[a].alloc
        /\ ~released[a]
        /\ Registered(a)

\* ---------------------------------------------------------------------- C5
\* C5 (leak check): ccl_wrapper_memcheck is false whenever a wrapper with a
\* positive reference count exists, and between calls it is true exactly
\* when no wrapper is allocated (before the first creation, after the last
\* destruction).
C5_LeakCheck ==
    /\ (\E a \in Addrs : mem[a].alloc /\ mem[a].ref_count >= 1) => ~ccl_wrapper_memcheck
    /\ Idle => (ccl_wrapper_memcheck <=> \A a \in Addrs : ~mem[a].alloc)

\* between calls, one wrapper has been destroyed while another is alive
C5_Witness ==
    /\ Idle
    /\ ~ccl_wrapper_memcheck
    /\ \E a \in Addrs, b \in Addrs :
        /\ nfree[a] = 1 /\ ~mem[a].alloc
        /\ mem[b].alloc /\ mem[b].ref_count >= 1

\* between calls, the last wrapper has been destroyed
C5_WitnessEmpty ==
    /\ Idle
    /\ ccl_wrapper_memcheck
    /\ \E a \in Addrs : nfree[a] = 1

\* ---------------------------------------------------------------------- C6
\* t is about to return from a ccl_wrapper_get_info call with use_cache =
\* TRUE that follows an earlier such call for the same wrapper and id, with
\* no use_cache = FALSE call for that id in between
SecondCachedCall(t) ==
    /\ pc[t] = "ret" /\ loc[t].op = "get_info" /\ loc[t].use_cache
    /\ prev[loc[t].w][loc[t].p].valid

Made(q) == IF q = "none" THEN 0 ELSE 1

\* C6 as stated (cache round-trip): two ccl_wrapper_get_info calls for one
\* wrapper and id with use_cache = TRUE, with no use_cache = FALSE call for
\* the id in between, make at most one size query and one value query in
\* total, and return the same info object with the same size and bytes.
C6_CacheRoundTrip ==
    \A t \in Threads : SecondCachedCall(t) =>
        LET l == loc[t]
            f == prev[l.w][l.p]
        IN /\ Made(f.probe) + Made(l.probe) <= 1
           /\ Made(f.fetch) + Made(l.fetch) <= 1
           /\ l.ret = f.ret
           /\ l.snap = f.snap

\* C6 as amended: when the first of the two calls succeeded and no
\* ccl_wrapper_add_info for the id (nor a use_cache = FALSE call) came in
\* between, the second call makes no query at all and returns the info
\* object of the first, still allocated, with the same size and bytes.
C6_CacheRoundTripAfterSuccess ==
    \A t \in Threads : SecondCachedCall(t) =>
        LET l == loc[t]
            f == prev[l.w][l.p]
        IN f.ret # NULL /\ ~f.added =>
            /\ l.probe = "none" /\ l.fetch = "none"
            /\ Made(f.probe) + Made(l.probe) <= 1
            /\ Made(f.fetch) + Made(l.fetch) <= 1
            /\ l.ret = f.ret
            /\ l.snap = f.snap
            /\ blobs[l.ret].alloc
            /\ Snap(blobs, l.ret) = f.snap

\* the second call returns, the first having queried and succeeded
C6_Witness ==
    \E t \in Threads :
        /\ SecondCachedCall(t)
        /\ LET f == prev[loc[t].w][loc[t].p]
           IN f.ret # NULL /\ ~f.added /\ f.probe = "ok" /\ f.fetch = "ok"
        /\ loc[t].ret # NULL

\* ---------------------------------------------------------------------- C7
ForcedCall(t) ==
    pc[t] = "ret" /\ loc[t].op = "get_info" /\ ~loc[t].use_cache

\* C7 as stated (forced refresh): a ccl_wrapper_get_info call with
\* use_cache = FALSE always makes the size query and the value query, cached
\* id or not, and when it succeeds the table holds the new info object for
\* the id in place of the old one.
C7_ForcedRefresh ==
    \A t \in Threads : ForcedCall(t) =>
        LET l == loc[t] IN
            /\ l.probe # "none"
            /\ l.fetch # "none"
            /\ l.ret # NULL =>
                /\ mem[l.w].cache[l.p] = l.ret
                /\ l.old # NULL => l.ret # l.old /\ ~blobs[l.old].alloc

\* C7 as amended: a call with use_cache = FALSE always makes the size
\* query, cached id or not, and makes the value query whenever the size
\* query succeeded with a size above zero; when the call succeeds the table
\* holds the new info object for the id and the old one is destroyed; when
\* it fails the table keeps the entry it had.
C7_ForcedRefreshWhenProbed ==
    \A t \in Threads : ForcedCall(t) =>
        LET l == loc[t] IN
            /\ l.probe # "none"
            /\ (l.probe = "ok" /\ l.size_ret > 0) <=> (l.fetch # "none")
            /\ l.ret # NULL =>
                /\ l.fetch = "ok"
                /\ mem[l.w].cache[l.p] = l.ret
                /\ blobs[l.ret].alloc /\ Snap(blobs, l.ret) = l.snap
                /\ l.old # NULL => l.ret # l.old /\ ~blobs[l.old].alloc
            /\ l.ret = NULL => mem[l.w].cache[l.p] = l.old

\* a forced call succeeds on an id that was cached
C7_Witness ==
    \E t \in Threads :
        /\ ForcedCall(t)
        /\ loc[t].old # NULL /\ loc[t].ret # NULL
        /\ loc[t].probe = "ok" /\ loc[t].fetch = "ok"

\* ---------------------------------------------------------------------- C8
\* C8 (info object lifetime): an info object that ccl_wrapper_get_info has
\* returned stays allocated, with the size and bytes it was returned with,
\* for as long as its wrapper is not being destroyed, whatever get_info and
\* add_info calls follow.
C8_BlobLifetime ==
    \A a \in Addrs, b \in BlobIds :
        mem[a].alloc /\ ntear[a] = 0 /\ given[a][b] # NoSnap =>
            /\ blobs[b].alloc
            /\ Snap(blobs, b) = given[a][b]

\* ---------------------------------------------------------------------- C9
\* C9 (zero-size rejection): when the size query of a ccl_wrapper_get_info
\* call succeeds and reports size 0, the call returns NULL, makes no value
\* query, allocates no info object, and leaves the table entry of the id as
\* it was.
C9_ZeroSizeRejected ==
    \A t \in Threads :
        /\ loc[t].op = "get_info" /\ loc[t].probe = "ok" /\ loc[t].size_ret = 0
           => /\ pc[t] = "ret"
              /\ loc[t].ret = NULL
              /\ loc[t].fetch = "none"
              /\ loc[t].info = NULL
              /\ mem[loc[t].w].cache[loc[t].p] = loc[t].old
        /\ pc[t] = "g_value" => blobs[loc[t].info].size > 0

\* a call whose size query reported 0 is about to return
C9_Witness ==
    \E t \in Threads :
        /\ pc[t] = "ret" /\ loc[t].op = "get_info"
        /\ loc[t].probe = "ok" /\ loc[t].size_ret = 0

\* --------------------------------------------------------------------- C10
IsPrefix(s, q) == Len(s) <= Len(q) /\ \A i \in 1..Len(s) : s[i] = q[i]

TeardownOrder(l) ==
    LET present(x) == \/ x \in {"remove", "free"}
                      \/ x = "rel_cl" /\ l.rel_cl
                      \/ x = "info" /\ l.had_info
                      \/ x = "rel_fields" /\ l.rel_fields
    IN SelectSeq(<<"rel_cl", "info", "remove", "rel_fields", "free">>, present)

\* C10 (teardown order): the ccl_wrapper_unref call that brings the count
\* to zero performs, in this order and each once, the release of the OpenCL
\* object, the destruction of the info table with its info objects, the
\* removal from the wrappers table, the release-fields hook and the freeing
\* of the wrapper; a hook that is not given, or an info table that was
\* never created, is skipped and the rest keep their order.  A call that
\* leaves the count above zero performs none of them.
C10_TeardownOrder ==
    \A t \in Threads : loc[t].op = "unref" =>
        LET l == loc[t] IN
            /\ IsPrefix(l.trace, TeardownOrder(l))
            /\ pc[t] = "ret" /\ l.destroyed => l.trace = TeardownOrder(l)
            /\ ~l.destroyed => l.trace = <<>>
            /\ pc[t] = "ret" /\ l.destroyed /\ l.had_info => l.cache_gone

\* a teardown with both hooks and an info table is complete
C10_Witness ==
    \E t \in Threads :
        /\ pc[t] = "ret" /\ loc[t].op = "unref" /\ loc[t].destroyed
        /\ loc[t].trace = <<"rel_cl", "info", "remove", "rel_fields", "free">>

\* a teardown without hooks is complete
C10_WitnessNoHooks ==
    \E t \in Threads :
        /\ pc[t] = "ret" /\ loc[t].op = "unref" /\ loc[t].destroyed
        /\ loc[t].trace = <<"info", "remove", "free">>

\* --------------------------------------------------------------------- C11
\* C11 (a failed release does not abort the teardown): when rel_cl_fun
\* returns an error status in the ccl_wrapper_unref call that brought the
\* count to zero, the error is set for the caller and the call goes on: at
\* its return the info table and its info objects are destroyed, the
\* wrapper is no longer in the wrappers table, rel_fields_fun has run, the
\* wrapper is freed and the return value is CL_TRUE.
C11_ReleaseFailureNoAbort ==
    \A t \in Threads : loc[t].op = "unref" /\ ~loc[t].rel_ok =>
        LET l == loc[t] IN
            /\ l.rel_cl /\ l.destroyed
            /\ pc[t] \in {"u_info", "u_lock", "u_remove", "u_fields", "u_free", "ret"}
            /\ pc[t] = "ret" =>
                /\ l.trace = TeardownOrder(l)
                /\ l.had_info => l.cache_gone /\ mem[l.w].info = "destroyed"
                /\ ~Registered(l.w)
                /\ ~mem[l.w].alloc /\ nfree[l.w] = 1
                /\ retTrue[l.w] = 1

\* the call returns after a failed release, with an info table and with
\* rel_fields_fun given
C11_Witness ==
    \E t \in Threads :
        /\ pc[t] = "ret" /\ loc[t].op = "unref" /\ ~loc[t].rel_ok
        /\ loc[t].had_info /\ loc[t].rel_fields

\* --------------------------------------------------------------------- C12
\* a thread makes the step of a ccl_wrapper_new call on the NULL object
NullNewStep ==
    \E t \in Threads :
        /\ pc[t] = "idle" /\ pc'[t] = "ret"
        /\ loc'[t].op = "new" /\ loc'[t].h = NULL

\* C12 (construction error): a ccl_wrapper_new call on the NULL object is
\* about to return NULL as soon as it has begun, and its step changes
\* neither the lock, nor the wrappers table, nor any wrapper or reference
\* count, nor any info object.
C12_NullObjectRejected ==
    /\ [](\A t \in Threads : loc[t].op = "new" /\ loc[t].h = NULL =>
            pc[t] = "ret" /\ loc[t].w = NULL /\ loc[t].ret = NULL)
    /\ [][NullNewStep => UNCHANGED <<wrappers, lock, mem, blobs, own, hist>>]_vars

\* a call on the NULL object is about to return while another thread holds
\* the lock and a wrapper exists
C12_Witness ==
    \E t \in Threads :
        /\ pc[t] = "ret" /\ loc[t].op = "new" /\ loc[t].h = NULL
        /\ lock \in Threads \ {t}
        /\ \E a \in Addrs : mem[a].alloc /\ mem[a].ref_count >= 1

\* --------------------------------------------------------------------- C13
\* C13 (membership in the wrappers table): a wrapper is in the wrappers
\* table if and only if its ref_count is at least 1.  Stated here for the
\* states in which no thread holds the lock, which leaves out the
\* statements of ccl_wrapper_new between the insertion and the increment;
\* the statement for every state implies this one.
C13_RegistryMembership ==
    \A a \in Addrs : mem[a].alloc /\ lock = NULL =>
        (Registered(a) <=> mem[a].ref_count >= 1)

\* --------------------------------------------------------------------- C14
\* C14 (concurrent ccl_wrapper_get_info calls are safe): when threads call
\* ccl_wrapper_get_info with use_cache = TRUE on one wrapper at the same
\* time, the process survives, the table holds an allocated info object
\* for an id once a call for it has succeeded, and every info object
\* returned or about to be returned is allocated and as it was returned.
C14_ConcurrentCacheSafe ==
    /\ ~crashed
    /\ \A t \in Threads :
          pc[t] = "ret" /\ loc[t].op = "get_info" /\ loc[t].ret # NULL =>
              /\ blobs[loc[t].ret].alloc
              /\ Snap(blobs, loc[t].ret) = loc[t].snap
              /\ mem[loc[t].w].cache[loc[t].p] # NULL
              /\ blobs[mem[loc[t].w].cache[loc[t].p]].alloc
    /\ \A a \in Addrs, b \in BlobIds :
          mem[a].alloc /\ given[a][b] # NoSnap => blobs[b].alloc

\* --------------------------------------------------------------------- C15
\* t is inside a function the library does not own: rel_cl_fun,
\* rel_fields_fun, or info_fun for the size or for the value
InForeignCall(t) == pc[t] \in {"u_rel", "u_fields", "g_size", "g_value"}

\* C15 (no foreign call under the lock): a thread that is inside
\* rel_cl_fun, rel_fields_fun or info_fun does not hold the lock of the
\* wrappers table.
C15_NoForeignCallUnderLock ==
    \A t \in Threads : InForeignCall(t) => lock # t

\* a thread is inside rel_fields_fun, which follows the critical section of
\* ccl_wrapper_unref, after having been inside rel_cl_fun
C15_Witness ==
    \E t \in Threads :
        /\ pc[t] = "u_fields"
        /\ loc[t].trace = <<"rel_cl", "info", "remove", "rel_fields">>

\* a thread is inside info_fun while another thread holds the lock
C15_WitnessQuery ==
    \E t \in Threads :
        /\ pc[t] \in {"g_size", "g_value"}
        /\ lock \in Threads \ {t}

\* --------------------------------------------------------------------- C16
\* C16 (order of the two queries): in a ccl_wrapper_get_info call that
\* queries, the size query comes first, with nothing allocated or added;
\* the value query is made only after the size query succeeded with a size
\* above zero, into an info object of exactly that size, which is not yet
\* in the table; the table entry of the id changes only after the value
\* query succeeded, and then to that info object.  A query that failed or
\* was not completed leaves no entry.
C16_TwoPhaseOrder ==
    \A t \in Threads :
        LET l == loc[t]
            entry == mem[l.w].cache[l.p]
        IN
        /\ pc[t] = "g_size" =>
              /\ l.probe = "none" /\ l.fetch = "none" /\ l.info = NULL
              /\ entry = l.old
        /\ pc[t] = "g_value" =>
              /\ l.probe = "ok" /\ l.size_ret > 0 /\ l.fetch = "none"
              /\ blobs[l.info].alloc /\ blobs[l.info].size = l.size_ret
              /\ entry = l.old /\ entry # l.info
        /\ pc[t] = "ret" /\ l.op = "get_info" =>
              /\ l.fetch # "none" => l.probe = "ok" /\ l.size_ret > 0
              /\ l.fetch # "ok" => entry = l.old /\ l.ret \in {NULL, l.old}
              /\ l.fetch = "ok" =>
                    /\ entry = l.info /\ l.ret = l.info
                    /\ blobs[l.info].size = l.size_ret
                    /\ Len(blobs[l.info].value) = l.size_ret

\* a call that made both queries with success is about to return
C16_Witness ==
    \E t \in Threads :
        /\ pc[t] = "ret" /\ loc[t].op = "get_info"
        /\ loc[t].probe = "ok" /\ loc[t].fetch = "ok"
        /\ mem[loc[t].w].cache[loc[t].p] = loc[t].info

\* a call whose value query failed is about to return
C16_WitnessFailed ==
    \E t \in Threads :
        /\ pc[t] = "ret" /\ loc[t].op = "get_info"
        /\ loc[t].probe = "ok" /\ loc[t].fetch = "error"

\* --------------------------------------------------------------------- C17
\* the query of the call with locals l failed: the size query returned an
\* error or a zero size, or the value query returned an error
FailedQuery(l) ==
    \/ l.probe = "error"
    \/ l.probe = "ok" /\ l.size_ret = 0
    \/ l.fetch = "error"

\* a step of a ccl_wrapper_get_info call that is not the success of its
\* value query
UnsuccessfulQueryStep ==
    \E t \in Threads :
        /\ pc[t] \in {"g_size", "g_value"}
        /\ pc'[t] # pc[t]
        /\ loc'[t].fetch # "ok"

\* C17 (a failed query leaves the info table as it was): a
\* ccl_wrapper_get_info call whose query failed returns NULL with the entry
\* of the id as it was at the start of the call, the info object of an
\* existing entry still allocated; and no step of a call other than the
\* success of its value query changes any wrapper's table or any info
\* object that a table holds.
C17_FailedQueryKeepsCache ==
    /\ [](\A t \in Threads :
            pc[t] = "ret" /\ loc[t].op = "get_info" /\ FailedQuery(loc[t]) =>
                /\ loc[t].ret = NULL
                /\ mem[loc[t].w].cache[loc[t].p] = loc[t].old
                /\ loc[t].old # NULL => blobs[loc[t].old].alloc)
    /\ [][UnsuccessfulQueryStep =>
            /\ mem' = mem
            /\ \A a \in Addrs, p \in Params :
                  mem[a].cache[p] # NULL =>
                      blobs'[mem[a].cache[p]] = blobs[mem[a].cache[p]]]_vars

\* a call with use_cache = FALSE on a cached id is about to return after
\* its value query failed
C17_Witness ==
    \E t \in Threads :
        /\ pc[t] = "ret" /\ loc[t].op = "get_info" /\ ~loc[t].use_cache
        /\ loc[t].old # NULL /\ loc[t].fetch = "error"

\* --------------------------------------------------------------------- C18
\* C18 (no info object is leaked): when a ccl_wrapper_get_info call is
\* about to return, the info object it allocated, if any, is either the
\* entry of the id in the wrapper's table or freed.
C18_NoBlobLeak ==
    \A t \in Threads :
        pc[t] = "ret" /\ loc[t].op = "get_info" /\ loc[t].info # NULL =>
            \/ mem[loc[t].w].cache[loc[t].p] = loc[t].info
            \/ ~blobs[loc[t].info].alloc

\* --------------------------------------------------------------------- C19
\* t is at a G_LOCK(wrappers) statement and another thread holds the lock
WaitsForLock(t) == pc[t] \in {"n_lock", "u_lock"} /\ lock \in Threads \ {t}

\* C19 as stated (ref and unref never wait for the lock): no thread inside
\* ccl_wrapper_ref or ccl_wrapper_unref is ever at G_LOCK(wrappers) while
\* another thread holds the lock.
C19_RefUnrefNeverWait ==
    \A t \in Threads : loc[t].op \in {"ref", "unref"} => ~WaitsForLock(t)

\* C19 as amended: ccl_wrapper_ref, and the decrement of
\* ccl_wrapper_unref, can be made whoever holds the lock and leave the
\* lock as it is; a ccl_wrapper_unref call is at or past G_LOCK only if
\* its decrement brought the count to zero.
C19_CountUpdateLockFree ==
    /\ [](\A t \in Threads, w \in Addrs :
            ~crashed /\ pc[t] = "idle" /\ own[t][w] > 0 =>
                /\ Owned(t) < MaxOwn /\ nref[w] < MaxRefCalls
                      => ENABLED RefCall(t, w)
                /\ ENABLED UnrefCall(t, w, FALSE, FALSE))
    /\ [](\A t \in Threads :
            loc[t].op = "unref" /\ ~loc[t].destroyed =>
                pc[t] = "ret" /\ lock # t /\ loc[t].trace = <<>>)
    /\ [][(\E w \in Addrs : mem'[w].ref_count # mem[w].ref_count)
              => lock' = lock]_vars

\* a ccl_wrapper_unref call that brought the count to zero is at G_LOCK
\* while another thread holds the lock
C19_Witness ==
    \E t \in Threads :
        /\ pc[t] = "u_lock" /\ loc[t].destroyed
        /\ lock \in Threads \ {t}

\* a thread between calls holds a reference while another thread holds the
\* lock: ccl_wrapper_ref and ccl_wrapper_unref can be called
C19_WitnessRef ==
    \E t \in Threads, w \in Addrs :
        /\ pc[t] = "idle" /\ own[t][w] > 0 /\ Owned(t) < MaxOwn
        /\ nref[w] < MaxRefCalls
        /\ lock \in Threads \ {t}

C20_ReturnsUnlessKilled ==
    \A t \in Threads : (pc[t] # "idle") ~> (pc[t] = "idle" \/ crashed)

====
